---- MODULE Spec2Model ----
(***************************************************************************)
(* bmm_crr_add: batch GEMM (A column-major, B row-major, C row-major)      *)
(* with a fused add of an auxiliary operand.                               *)
(*                                                                         *)
(* The model follows python/aitemplate/compiler/ops/gemm_universal/        *)
(* bmm_crr_add.py.  The parent builder (bmm_crr.__call__), the shape       *)
(* inference (bmm_crr._infer_shapes), the broadcast check                  *)
(* (bmm.is_valid_inputs), TensorAccessor and Operator._set_depth live in   *)
(* other files of the repository; they are modelled from the design        *)
(* document (sections 3, 4.1, 4.2, 4.3).                                   *)
(***************************************************************************)
EXTENDS Integers, Sequences, FiniteSets, TLC

VARIABLES a, b, c, node, output, result, pc, trace, accessorsMade, probeResult

vars == <<a, b, c, node, output, result, pc, trace, accessorsMade, probeResult>>

(***************************************************************************)
(* Bounds of the model.                                                    *)
(***************************************************************************)
MaxDim == 3
MaxDepth == 2

\* Rank of a batched GEMM operand: (B, K, M), (B, K, N), (B, M, N).
Rank == 3

Dims == 1..MaxDim
ShapesOfRank(r) == [1..r -> Dims]
PrimaryShapes == ShapesOfRank(Rank - 1) \cup ShapesOfRank(Rank)
AuxShapes == UNION {ShapesOfRank(r) : r \in 1..Rank}

(***************************************************************************)
(* Tensor: shape plus a back-reference to the node that produced it.       *)
(* The name is the object's identity.                                      *)
(***************************************************************************)
NoProducer == [kind |-> "none", depth |-> 0]
ExtNode(d) == [kind |-> "node", depth |-> d]
SelfNode == [kind |-> "self", depth |-> 0]
Producers == {NoProducer} \cup {ExtNode(d) : d \in 0..MaxDepth}

Tensor(name, shape, producer) ==
    [name |-> name, shape |-> shape, producer |-> producer]
NoTensor == Tensor("none", <<>>, NoProducer)

Max(S) == CHOOSE x \in S : \A y \in S : y <= x

(***************************************************************************)
(* ShapeInferenceEngine (bmm_crr._infer_shapes): A = (Batch, K, M),        *)
(* B = (Batch, K, N) -> (Batch, M, N); ShapeMismatch when a rank is not 3, *)
(* the batch extents differ or the contraction extents differ.             *)
(***************************************************************************)
InferShapes(A, B) ==
    IF Len(A) # Rank \/ Len(B) # Rank
    THEN [err |-> TRUE, shape |-> <<>>]
    ELSE IF A[1] # B[1] \/ A[2] # B[2]
         THEN [err |-> TRUE, shape |-> <<>>]
         ELSE [err |-> FALSE, shape |-> <<A[1], A[3], B[3]>>]

(***************************************************************************)
(* BroadcastValidator (bmm.is_valid_inputs): walks the two shapes from the *)
(* rightmost dimension; k counts the dimensions already aligned.  The      *)
(* result carries, on failure, the axis of O and the two extents.          *)
(***************************************************************************)
Accepted == [ok |-> TRUE, axis |-> 0, o_extent |-> 0, c_extent |-> 0]
Rejected(axis, oe, ce) == [ok |-> FALSE, axis |-> axis, o_extent |-> oe, c_extent |-> ce]

RECURSIVE AlignFrom(_, _, _)
AlignFrom(O, C, k) ==
    IF k >= Len(C) THEN Accepted
    ELSE IF k >= Len(O) THEN Rejected(0, 0, C[Len(C) - k])
    ELSE LET oe == O[Len(O) - k]
             ce == C[Len(C) - k]
         IN IF oe = ce \/ oe = 1 \/ ce = 1
            THEN AlignFrom(O, C, k + 1)
            ELSE Rejected(Len(O) - k, oe, ce)

BroadcastValidator(O, C) == IF O = C THEN Accepted ELSE AlignFrom(O, C, 0)

(***************************************************************************)
(* TensorAccessor(tensor): a new accessor object viewing the tensor.       *)
(***************************************************************************)
TensorAccessor(tensor, id) == [tensor |-> tensor.name, id |-> id]

(***************************************************************************)
(* Operator._set_depth: 1 + max depth of the producers of the inputs,      *)
(* 0 when no input has a producer.                                         *)
(***************************************************************************)
ProducerDepths(inputs) ==
    {inputs[i].producer.depth : i \in {j \in 1..Len(inputs) : inputs[j].producer.kind = "node"}}

SetDepth(n) ==
    [n EXCEPT !.depth = IF ProducerDepths(n.inputs) = {} THEN 0
                        ELSE 1 + Max(ProducerDepths(n.inputs))]

(***************************************************************************)
(* bmm_crr.__call__(a, b), the parent builder (stage 1): infer the shape,  *)
(* allocate the output, inputs = [A, B], one accessor per input, depth,    *)
(* link the output to the node.  On ShapeMismatch nothing is created.      *)
(***************************************************************************)
BmmCrrCall(n, A, B, made) ==
    LET inf == InferShapes(A.shape, B.shape)
    IN IF inf.err
       THEN [err |-> TRUE, node |-> n, output |-> NoTensor, made |-> made]
       ELSE [err |-> FALSE,
             node |-> SetDepth([n EXCEPT
                        !.inputs = <<A, B>>,
                        !.input_accessors = <<TensorAccessor(A, made + 1),
                                              TensorAccessor(B, made + 2)>>,
                        !.outputs = <<"output">>]),
             output |-> Tensor("output", inf.shape, SelfNode),
             made |-> made + 2]

(***************************************************************************)
(* bmm_crr_add.__init__                                                    *)
(***************************************************************************)
NewNode ==
    [op |-> "bmm_crr_add", has_d |-> TRUE, inputs |-> <<>>,
     input_accessors |-> <<>>, depth |-> 0, outputs |-> <<>>]

(***************************************************************************)
(* bmm_crr_add.is_valid_inputs(A, B, C): the error of _infer_shapes is not *)
(* caught, the validator's result is returned as it is.                    *)
(***************************************************************************)
Raised(error) == [kind |-> "raise", error |-> error, value |-> Rejected(0, 0, 0)]
Returned(value) == [kind |-> "return", error |-> "", value |-> value]
NotCalled == [kind |-> "none", error |-> "", value |-> Rejected(0, 0, 0)]

\* Faults of is_valid_inputs: the inference error swallowed as "valid", the
\* inference error turned into a rejection, the validator's arguments swapped.
IsValidInputsSwallow(A, B, C) ==
    LET output_shapes == InferShapes(A.shape, B.shape)
    IN IF output_shapes.err
       THEN Returned(Accepted)
       ELSE Returned(BroadcastValidator(output_shapes.shape, C.shape))

IsValidInputsCatch(A, B, C) ==
    LET output_shapes == InferShapes(A.shape, B.shape)
    IN IF output_shapes.err
       THEN Returned(Rejected(0, 0, 0))
       ELSE Returned(BroadcastValidator(output_shapes.shape, C.shape))

IsValidInputsSwapped(A, B, C) ==
    LET output_shapes == InferShapes(A.shape, B.shape)
    IN IF output_shapes.err
       THEN Raised("ShapeMismatch")
       ELSE Returned(BroadcastValidator(C.shape, output_shapes.shape))

IsValidInputs(A, B, C) ==
    LET output_shapes == InferShapes(A.shape, B.shape)
        c_shapes == C.shape
    IN IF output_shapes.err
       THEN Raised("ShapeMismatch")
       ELSE Returned(BroadcastValidator(output_shapes.shape, c_shapes))

(***************************************************************************)
(* The statements of bmm_crr_add.__call__ after the parent call.           *)
(***************************************************************************)
\* Fault: the auxiliary operand is appended only when the validator accepts it.
AppendCIfValid(n, t) ==
    IF BroadcastValidator(InferShapes(n.inputs[1].shape, n.inputs[2].shape).shape, t.shape).ok
    THEN [n EXCEPT !.inputs = Append(@, t)]
    ELSE n

AppendC(n, t) == [n EXCEPT !.inputs = Append(@, t)]

\* Fault: the stage-1 accessor list is kept and one accessor is added to it.
ExtendAccessors(n, made) ==
    [n EXCEPT !.input_accessors =
        Append(@, TensorAccessor(n.inputs[Len(n.inputs)], made + 1))]

RebuildAccessors(n, made) ==
    [n EXCEPT !.input_accessors =
        [i \in 1..Len(n.inputs) |-> TensorAccessor(n.inputs[i], made + i)]]

\* Fault: the auxiliary operand is returned.
ReturnAux(out, t) == t

ReturnValue(out, t) == out

(***************************************************************************)
(* Operands: every shape combination on graph inputs, and the design       *)
(* document's end-to-end shapes with every combination of producers.       *)
(***************************************************************************)
ExampleA == <<4, 16, 32>>
ExampleB == <<4, 16, 64>>
ExampleC == <<32, 64>>

ShapeCases ==
    \E sa \in PrimaryShapes, sb \in PrimaryShapes, sc \in AuxShapes :
        /\ a = Tensor("a", sa, NoProducer)
        /\ b = Tensor("b", sb, NoProducer)
        /\ c = Tensor("c", sc, NoProducer)

DepthCases ==
    \E pa \in Producers, pb \in Producers, pc0 \in Producers :
        /\ a = Tensor("a", ExampleA, pa)
        /\ b = Tensor("b", ExampleB, pb)
        /\ c = Tensor("c", ExampleC, pc0)

NoResult == [kind |-> "none", tensor |-> NoTensor, error |-> ""]

Init ==
    /\ (ShapeCases \/ DepthCases)
    /\ node = NewNode
    /\ output = NoTensor
    /\ result = NoResult
    /\ pc = "init"
    /\ trace = <<>>
    /\ accessorsMade = 0
    /\ probeResult = NotCalled

\* Fault: the parent's ShapeMismatch is swallowed and construction goes on.
PrimarySwallow ==
    /\ pc = "init"
    /\ LET r == BmmCrrCall(node, a, b, accessorsMade)
       IN /\ node' = r.node
          /\ output' = r.output
          /\ accessorsMade' = r.made
    /\ pc' = "append"
    /\ result' = result
    /\ trace' = Append(trace, "primary")
    /\ UNCHANGED <<a, b, c, probeResult>>

\* output = super().__call__(a, b)
Primary ==
    /\ pc = "init"
    /\ LET r == BmmCrrCall(node, a, b, accessorsMade)
       IN /\ node' = r.node
          /\ output' = r.output
          /\ accessorsMade' = r.made
          /\ IF r.err
             THEN /\ pc' = "failed"
                  /\ result' = [kind |-> "error", tensor |-> NoTensor, error |-> "ShapeMismatch"]
             ELSE /\ pc' = "append"
                  /\ result' = result
    /\ trace' = Append(trace, "primary")
    /\ UNCHANGED <<a, b, c, probeResult>>

\* Fault: the validator is run on (output shape, C shape) before the append.
AppendInputValidated ==
    /\ pc = "append"
    /\ BroadcastValidator(output.shape, c.shape).ok
    /\ node' = AppendC(node, c)
    /\ trace' = trace \o <<"validate", "append">>
    /\ pc' = "accessors"
    /\ UNCHANGED <<a, b, c, output, result, accessorsMade, probeResult>>

\* self._attrs["inputs"].append(c)
AppendInput ==
    /\ pc = "append"
    /\ node' = AppendC(node, c)
    /\ trace' = Append(trace, "append")
    /\ pc' = "accessors"
    /\ UNCHANGED <<a, b, c, output, result, accessorsMade, probeResult>>

\* self._attrs["input_accessors"] = [TensorAccessor(tensor) for tensor in inputs]
Accessors ==
    /\ pc = "accessors"
    /\ node' = RebuildAccessors(node, accessorsMade)
    /\ accessorsMade' = accessorsMade + Len(node'.input_accessors)
    /\ trace' = Append(trace, "accessors")
    /\ pc' = "depth"
    /\ UNCHANGED <<a, b, c, output, result, probeResult>>

\* Fault: the depth of stage 1 is kept.
DepthKept ==
    /\ pc = "depth"
    /\ trace' = Append(trace, "depth")
    /\ pc' = "return"
    /\ UNCHANGED <<a, b, c, node, output, result, accessorsMade, probeResult>>

\* self._set_depth()
Depth ==
    /\ pc = "depth"
    /\ node' = SetDepth(node)
    /\ trace' = Append(trace, "depth")
    /\ pc' = "return"
    /\ UNCHANGED <<a, b, c, output, result, accessorsMade, probeResult>>

\* return output
Return ==
    /\ pc = "return"
    /\ result' = [kind |-> "tensor", tensor |-> ReturnValue(output, c), error |-> ""]
    /\ trace' = Append(trace, "return")
    /\ pc' = "done"
    /\ UNCHANGED <<a, b, c, node, output, accessorsMade, probeResult>>

\* Fault: the probe runs the parent builder on the node instead of the pure
\* shape inference.
ProbeBuilds ==
    /\ pc \in {"init", "done", "failed"}
    /\ probeResult' = IsValidInputs(a, b, c)
    /\ node' = BmmCrrCall(node, a, b, accessorsMade).node
    /\ UNCHANGED <<a, b, c, output, result, pc, trace, accessorsMade>>

\* bmm_crr_add.is_valid_inputs(a, b, c), called outside a construction
Probe ==
    /\ pc \in {"init", "done", "failed"}
    /\ probeResult' = IsValidInputs(a, b, c)
    /\ UNCHANGED <<a, b, c, node, output, result, pc, trace, accessorsMade>>

Next == Primary \/ AppendInput \/ Accessors \/ Depth \/ Return \/ Probe

Spec == Init /\ [][Next]_vars

(***************************************************************************)
(* Vocabulary of the properties, stated on the operands themselves.        *)
(***************************************************************************)
\* A = (Batch, K, M) and B = (Batch, K, N): rank 3, equal Batch, equal K.
Compatible ==
    /\ Len(a.shape) = 3
    /\ Len(b.shape) = 3
    /\ a.shape[1] = b.shape[1]
    /\ a.shape[2] = b.shape[2]

\* (Batch, M, N)
ExpectedShape == <<a.shape[1], a.shape[3], b.shape[3]>>

\* Aligned from the right, every pair is equal or one of them is 1; the
\* leading dimensions of C may be missing.
Broadcastable(O, C) ==
    /\ Len(C) <= Len(O)
    /\ \A k \in 0..(Len(C) - 1) :
          \/ O[Len(O) - k] = C[Len(C) - k]
          \/ O[Len(O) - k] = 1
          \/ C[Len(C) - k] = 1

AuxRejected == Compatible /\ ~Broadcastable(ExpectedShape, c.shape)
AuxAccepted == Compatible /\ Broadcastable(ExpectedShape, c.shape)

InputNames == [i \in 1..Len(node.inputs) |-> node.inputs[i].name]

ProbeTrue == probeResult.kind = "return" /\ probeResult.value.ok

C3_OutputShape ==
    AuxAccepted =>
        /\ pc # "failed"
        /\ result.kind # "error"
        /\ pc = "done" =>
              /\ result.kind = "tensor"
              /\ result.tensor.shape = ExpectedShape
              /\ result.tensor.name = "output"
              /\ result.tensor # c
              /\ result.tensor.producer = SelfNode

C3_Witness ==
    /\ AuxAccepted
    /\ pc = "done"
    /\ result.tensor.shape = ExpectedShape
    /\ Len(c.shape) < 3

(***************************************************************************)
(* C4: when A and B differ in Batch or in K, or one of them is not of rank *)
(* 3, the construction fails with ShapeMismatch in stage 1: no output      *)
(* Tensor, and the node's inputs, accessors and depth are never populated. *)
(***************************************************************************)
C4_ShapeMismatchAborts ==
    ~Compatible =>
        /\ pc \in {"init", "failed"}
        /\ node = NewNode
        /\ output = NoTensor
        /\ result.kind # "tensor"
        /\ pc = "failed" =>
              /\ result.kind = "error"
              /\ result.error = "ShapeMismatch"
              /\ trace = <<"primary">>

C4_Witness == ~Compatible /\ pc = "failed" /\ Len(a.shape) = 3 /\ Len(b.shape) = 3

(***************************************************************************)
(* C5: the validation of C against the output shape O accepts exactly when,*)
(* aligned from the rightmost dimension, every pair is equal or one of     *)
(* them is 1 or C's dimension is missing.  For O = (2,4,8) it accepts      *)
(* (2,4,8), (1,4,8), (4,8), (8) and rejects (2,4,9), (3,4,8).  A rejection *)
(* is a returned value naming the axis and the two extents, not an error.  *)
(***************************************************************************)
C5_BroadcastRule ==
    /\ BroadcastValidator(<<2, 4, 8>>, <<2, 4, 8>>).ok
    /\ BroadcastValidator(<<2, 4, 8>>, <<1, 4, 8>>).ok
    /\ BroadcastValidator(<<2, 4, 8>>, <<4, 8>>).ok
    /\ BroadcastValidator(<<2, 4, 8>>, <<8>>).ok
    /\ BroadcastValidator(<<2, 4, 8>>, <<2, 4, 9>>) = Rejected(3, 8, 9)
    /\ BroadcastValidator(<<2, 4, 8>>, <<3, 4, 8>>) = Rejected(1, 2, 3)
    /\ (Compatible /\ probeResult.kind # "none") =>
          /\ probeResult.kind = "return"
          /\ probeResult.value.ok <=> Broadcastable(ExpectedShape, c.shape)
          /\ ~probeResult.value.ok =>
                LET r == probeResult.value
                    k == Len(ExpectedShape) - r.axis
                IN /\ r.axis \in 1..Len(ExpectedShape)
                   /\ r.o_extent = ExpectedShape[r.axis]
                   /\ r.c_extent = c.shape[Len(c.shape) - k]
                   /\ r.o_extent # r.c_extent

C5_Witness ==
    /\ Compatible
    /\ probeResult.kind = "return"
    /\ ~probeResult.value.ok
    /\ probeResult.value.axis = 1
    /\ c.shape[3] = 1

(***************************************************************************)
(* C6 (as stated): is_valid_inputs returns a boolean for every shape       *)
(* triple; for incompatible A and B it returns false instead of raising.   *)
(***************************************************************************)
C6_ProbeNeverRaises ==
    probeResult.kind # "none" =>
        /\ probeResult.kind = "return"
        /\ ~Compatible => ~probeResult.value.ok

(***************************************************************************)
(* C6 (amended): is_valid_inputs returns the validator's verdict whenever  *)
(* A and B are compatible; when they are not (rank not 3, Batch or K       *)
(* mismatch) the ShapeMismatch of the shape inference reaches the caller:  *)
(* the probe raises, it does not return false.                             *)
(***************************************************************************)
C6_ProbeRaisesOnMismatch ==
    probeResult.kind # "none" =>
        /\ Compatible => probeResult.kind = "return"
        /\ ~Compatible => (probeResult.kind = "raise" /\ probeResult.error = "ShapeMismatch")

C6_Witness == ~Compatible /\ probeResult.kind = "raise" /\ Len(a.shape) = 3 /\ Len(b.shape) = 3

(***************************************************************************)
(* C7: after a successful construction the inputs are exactly [A, B, C],   *)
(* there are as many accessors as inputs (3), the i-th accessor views the  *)
(* i-th input, and the accessor list was rebuilt: none of its accessors is *)
(* an accessor of the stage-1 list.                                        *)
(***************************************************************************)
C7_InputsAndAccessors ==
    /\ [](pc \in {"depth", "return", "done"} =>
            /\ node.inputs = <<a, b, c>>
            /\ Len(node.input_accessors) = Len(node.inputs)
            /\ Len(node.input_accessors) = 3
            /\ \A i \in 1..3 : node.input_accessors[i].tensor = node.inputs[i].name)
    /\ [][pc = "accessors" =>
            \A i \in 1..Len(node'.input_accessors), j \in 1..Len(node.input_accessors) :
                node'.input_accessors[i].id # node.input_accessors[j].id]_vars

C7_Witness ==
    /\ pc = "done"
    /\ Len(node.inputs) = 3
    /\ Len(node.input_accessors) = 3
    /\ node.input_accessors[3].tensor = "c"

(***************************************************************************)
(* C8: after a successful construction the depth is 1 + the maximum depth  *)
(* of the producers of A, B and C; with producers of depth 0 and 0 for A   *)
(* and B the stage-1 depth is 1, and a C whose producer has depth 2 makes  *)
(* the final depth 3.                                                      *)
(***************************************************************************)
DepthsOf(ts) == {t.producer.depth : t \in {u \in ts : u.producer.kind = "node"}}

DepthExample ==
    /\ a.producer = ExtNode(0)
    /\ b.producer = ExtNode(0)
    /\ c.producer = ExtNode(2)

C8_DepthOverAllInputs ==
    /\ (pc \in {"return", "done"} /\ DepthsOf({a, b, c}) # {}) =>
          /\ node.depth = 1 + Max(DepthsOf({a, b, c}))
          /\ \A t \in {a, b, c} : t.producer.kind = "node" => node.depth > t.producer.depth
    /\ (pc \in {"append", "accessors", "depth"} /\ DepthsOf({a, b}) # {}) =>
          node.depth = 1 + Max(DepthsOf({a, b}))
    /\ DepthExample =>
          /\ pc \in {"append", "accessors", "depth"} => node.depth = 1
          /\ pc \in {"return", "done"} => node.depth = 3

C8_Witness == DepthExample /\ pc = "done" /\ node.depth = 3

(***************************************************************************)
(* C9: a call of is_valid_inputs changes nothing: the operands (shapes and *)
(* producer references), the node's inputs, accessors and depth, the       *)
(* output and the result of a construction stay as they are, and a         *)
(* repeated call returns what the earlier call returned.                   *)
(***************************************************************************)
C9_ProbeIsPure ==
    [][(pc \in {"init", "done", "failed"} /\ pc' = pc) =>
          /\ UNCHANGED <<a, b, c, node, output, result, trace, accessorsMade>>
          /\ probeResult.kind # "none" => probeResult' = probeResult]_vars

C9_Witness ==
    /\ probeResult.kind = "return"
    /\ pc = "done"
    /\ node.inputs = <<a, b, c>>

StageOrder == <<"primary", "append", "accessors", "depth", "return">>

====
